---- MODULE Spec2Model ----
(***************************************************************************)
(* RBACService: the credential and session lifecycle of AuthService        *)
(* (register, login, refreshTokens, logout), the passport gates in front   *)
(* of it, the routes of UsersController behind the bearer gate and the      *)
(* roles guard, and the principal store they share.                        *)
(*                                                                         *)
(* Every await of the service is a step of its own, so calls interleave at *)
(* the store reads and writes exactly where the code suspends.  Pure       *)
(* computations on a call's own data (bcrypt.compare on the row already    *)
(* read, bcrypt.hash of the token just signed) are done in the step that   *)
(* has their input: they read no shared state.                             *)
(***************************************************************************)
EXTENDS Integers, Sequences, FiniteSets, TLC

(* ------------------------------ bounds --------------------------------- *)
\* the clock runs 0..MaxTime, in seconds (the granularity of iat and exp)
MaxTime == 2
\* calls started in one behaviour
MaxOps == 4
\* JWT_EXPIRATION and JWT_REFRESH_EXPIRATION, in clock ticks
AccessTTL == 1
RefreshTTL == 2

(* ------------------------- program constants --------------------------- *)
\* bcrypt reads at most 72 bytes of its input
BcryptMaxBytes == 72
\* bcrypt.genSalt(10), bcrypt.hash(token, 10)
SaltRounds == 10

Ids == {1, 2}
Calls == {1, 2}

(* ------------------------------ strings -------------------------------- *)
\* A string is a sequence of segments; a segment is a run of n bytes that
\* spells field f with value (s, i).  A segment cut short keeps its value:
\* the leading bytes of two different values of a field are taken to differ.
Seg(f, s, i, n) == [f |-> f, s |-> s, i |-> i, n |-> n]

Raw(s, n) == <<Seg("raw", s, 0, n)>>

RECURSIVE Truncate(_, _)
Truncate(str, k) ==
  IF str = <<>> \/ k = 0 THEN <<>>
  ELSE IF Head(str).n <= k
       THEN <<Head(str)>> \o Truncate(Tail(str), k - Head(str).n)
       ELSE <<[Head(str) EXCEPT !.n = k]>>

(* ------------------------------ bcrypt --------------------------------- *)
NoHash == [cost |-> 0, key |-> <<>>]

\* bcrypt.hash(secret, 10): the digest is a function of the salt, the cost
\* and the first 72 bytes of the secret; compare re-derives it with the salt
\* stored in the digest, so the salt does not decide any comparison and is
\* left out.
BcryptHash(secret) == [cost |-> SaltRounds, key |-> Truncate(secret, BcryptMaxBytes)]

BcryptCompare(secret, digest) ==
  /\ digest.cost = SaltRounds
  /\ Truncate(secret, BcryptMaxBytes) = digest.key

(* ------------------------------ tokens --------------------------------- *)
NoToken == [secret |-> "none", sub |-> 0, email |-> "", role |-> "", iat |-> 0, exp |-> 0]
\* a string that is no JWT ('invalid-token')
Garbage == [secret |-> "garbage", sub |-> 0, email |-> "", role |-> "", iat |-> 0, exp |-> 0]

TTL(secret) == IF secret = "JWT_SECRET" THEN AccessTTL ELSE RefreshTTL

\* jwtService.signAsync(payload, {secret, expiresIn}): HS256 over the header
\* and the payload {sub, email, role, iat, exp}; iat is the clock in whole
\* seconds.  The signature is a function of the signed bytes and the key, so
\* equal payloads signed with one key in one second are one and the same token.
SignAsync(payload, secret, clock) ==
  [secret |-> secret, sub |-> payload.sub, email |-> payload.email,
   role |-> payload.role, iat |-> clock, exp |-> clock + TTL(secret)]

\* the compact serialization: header "." payload "." signature, base64url.
\* eyJhbGciOiJIUzI1NiIsInR5cCI6IkpXVCJ9 is 36 characters; {"sub":"<uuid>",
\* is 46 bytes, 62 characters of base64url.
JwtString(t) ==
  IF t.secret \notin {"JWT_SECRET", "JWT_REFRESH_SECRET"}
  THEN Raw(t.secret, 13)
  ELSE << Seg("header", "eyJhbGciOiJIUzI1NiIsInR5cCI6IkpXVCJ9.", 0, 37),
          Seg("sub", "", t.sub, 62),
          Seg("email", t.email, 0, 30),
          Seg("role", t.role, 0, 18),
          Seg("iat", "", t.iat, 20),
          Seg("exp", "", t.exp, 20),
          Seg("signature", t.secret, 0, 44) >>

\* a token of this service whose expiry instant the clock has reached
Expired(t, clock) ==
  /\ t.secret \in {"JWT_SECRET", "JWT_REFRESH_SECRET"}
  /\ clock >= t.exp

\* verification with one key for both kinds of token
JwtVerifyOneSecret(t, secret, clock) ==
  /\ t.secret \in {"JWT_SECRET", "JWT_REFRESH_SECRET"}
  /\ clock < t.exp

\* verification that still accepts a token at its expiry instant
JwtVerifyAtExpiry(t, secret, clock) ==
  /\ t.secret = secret
  /\ clock <= t.exp

\* passport-jwt with ignoreExpiration: false: the signature must verify under
\* the strategy's secret and the clock must be before exp.
JwtVerify(t, secret, clock) ==
  /\ t.secret = secret
  /\ clock < t.exp

(* ------------------------------ store ---------------------------------- *)
NoUser == [id |-> 0, email |-> "", password |-> NoHash, role |-> "",
           isActive |-> FALSE, refreshToken |-> NoHash]

Secret123 == Raw("Secret123", 9)
Other1234 == Raw("Other1234", 9)

\* the closed set of UserRole
Roles == {"user", "moderator", "admin"}

\* two emails that differ only in letter case
RegisterDtos ==
  { [email |-> "user@x.com", password |-> Secret123, role |-> ""],
    [email |-> "USER@x.com", password |-> Other1234, role |-> "admin"] }

LoginDtos ==
  { [email |-> e, password |-> p] : e \in {"user@x.com", "USER@x.com"},
                                    p \in {Secret123, Other1234} }

\* a response that shows the row as it is stored
WithSensitiveData(user) == user

\* what a response shows of a row: the row without password and refreshToken
\* (the rest destructuring of register and login, the fields getProfile
\* copies, the select of UsersService.findAll)
WithoutSensitiveData(user) ==
  [id |-> user.id, email |-> user.email, role |-> user.role, isActive |-> user.isActive]

\* a response body: the principal it shows and the list it shows
NoBody == [user |-> {}, users |-> {}]

\* the roles a route requires: the @Roles metadata, absent where there is none
NoRoles == [defined |-> FALSE, roles |-> {}]
RolesOf(rs) == [defined |-> TRUE, roles |-> rs]

\* the metadata the guard is handed: the handler's and the controller class's
NoMeta == [handler |-> NoRoles, class |-> NoRoles]

VARIABLES
  users,    \* the user table: users[i] is the row with id i, NoUser if none
  now,      \* the wall clock, in seconds
  calls,    \* the calls in flight, one per slot
  issued,   \* the tokens returned to callers so far
  latest,   \* history: per principal, the refresh token whose hash was stored last
  rotated,  \* history: the refresh tokens a successful refresh has consumed
  revoked,  \* history: the refresh tokens whose hash a logout cleared
  nops      \* calls started

vars == <<users, now, calls, issued, latest, rotated, revoked, nops>>

\* what a call met, recorded when it met it (history, read by no action)
NoObs == [found |-> FALSE, active |-> FALSE, pwOk |-> FALSE, stale |-> FALSE,
          wasLatest |-> FALSE, wasRevoked |-> FALSE, sessionless |-> FALSE,
          tokLive |-> FALSE, raced |-> FALSE, activeAtEnd |-> FALSE,
          inactiveAtStart |-> FALSE, expired |-> FALSE]

NoDto == [email |-> "", password |-> <<>>, role |-> ""]

NoCall == [op |-> "none", pc |-> "idle", tok |-> NoToken, dto |-> NoDto,
           user |-> NoUser, accessToken |-> NoToken, refreshToken |-> NoToken,
           required |-> NoMeta, body |-> NoBody, res |-> "", obs |-> NoObs]

Rows == {users[i] : i \in {j \in Ids : users[j] # NoUser}}

\* the lower-case form of an email
LowerCase(email) == IF email = "USER@x.com" THEN "user@x.com" ELSE email

\* the lookup on a column that compares without regard to letter case
FindByEmailIgnoringCase(email) ==
  IF \E r \in Rows : LowerCase(r.email) = LowerCase(email)
  THEN CHOOSE r \in Rows : LowerCase(r.email) = LowerCase(email)
  ELSE NoUser

\* userRepository.findOne({ where: { email } }): the column is compared byte
\* for byte
FindByEmail(email) ==
  IF \E r \in Rows : r.email = email
  THEN CHOOSE r \in Rows : r.email = email
  ELSE NoUser

\* userRepository.findOne({ where: { id } })
FindById(id) == IF id \in Ids THEN users[id] ELSE NoUser

\* userRepository.findOne({ where: { id, isActive: true } })
FindActiveById(id) ==
  IF id \in Ids /\ users[id] # NoUser /\ users[id].isActive THEN users[id] ELSE NoUser

Init ==
  /\ users = [i \in Ids |-> NoUser]
  /\ now = 0
  /\ calls = [c \in Calls |-> NoCall]
  /\ issued = {}
  /\ latest = [i \in Ids |-> NoToken]
  /\ rotated = {}
  /\ revoked = {}
  /\ nops = 0

\* a slot is free when it holds no call or a call that has ended, whose
\* outcome stays readable until the slot is taken again; a new call takes the
\* first free slot
Free(c) == calls[c].pc \in {"idle", "done"}

Idle(c) ==
  /\ Free(c)
  /\ \A d \in Calls : d < c => ~Free(d)
  /\ nops < MaxOps

Fail(c, call, kind) == calls' = [calls EXCEPT ![c] = [call EXCEPT !.pc = "done", !.res = kind]]

(* ----------------------------- register -------------------------------- *)
\* register without its lookup: every call goes on to the save
RegisterFindNoLookup(c) ==
  /\ Idle(c)
  /\ \E dto \in RegisterDtos :
       LET seen == [NoObs EXCEPT
                      !.found = \E i \in Ids : users[i] # NoUser /\ users[i].email = dto.email]
           call == [NoCall EXCEPT !.op = "register", !.dto = dto, !.obs = seen] IN
       calls' = [calls EXCEPT ![c] = [call EXCEPT !.pc = "save"]]
  /\ nops' = nops + 1
  /\ UNCHANGED <<users, now, issued, latest, rotated, revoked>>

\* AuthService.register, up to the lookup: findOne by email, ConflictException
\* when a row has it
RegisterFind(c) ==
  /\ Idle(c)
  /\ \E dto \in RegisterDtos :
       LET seen == [NoObs EXCEPT
                      !.found = \E i \in Ids : users[i] # NoUser /\ users[i].email = dto.email]
           call == [NoCall EXCEPT !.op = "register", !.dto = dto, !.obs = seen] IN
       IF FindByEmail(dto.email) # NoUser
       THEN Fail(c, call, "DuplicateIdentity")
       ELSE calls' = [calls EXCEPT ![c] = [call EXCEPT !.pc = "save"]]
  /\ nops' = nops + 1
  /\ UNCHANGED <<users, now, issued, latest, rotated, revoked>>

\* a create that stores the role field of the request as it came
NewUserNoDefault(id, dto) ==
  [id |-> id, email |-> dto.email, password |-> BcryptHash(dto.password),
   role |-> dto.role,
   isActive |-> TRUE, refreshToken |-> NoHash]

\* the row repository.create builds: role || UserRole.USER, the entity's
\* defaults isActive = true and refreshToken = null
NewUser(id, dto) ==
  [id |-> id, email |-> dto.email, password |-> BcryptHash(dto.password),
   role |-> IF dto.role = "" THEN "user" ELSE dto.role,
   isActive |-> TRUE, refreshToken |-> NoHash]

\* a save that is tried again for as long as the email is taken
RegisterSaveRetrying(c) ==
  LET call == calls[c] IN
  /\ call.op = "register" /\ call.pc = "save"
  /\ IF FindByEmail(call.dto.email) # NoUser
     THEN UNCHANGED <<users, calls>>
     ELSE LET id == CHOOSE i \in Ids : users[i] = NoUser /\ \A j \in Ids : j < i => users[j] # NoUser
              row == NewUser(id, call.dto) IN
          /\ users' = [users EXCEPT ![id] = row]
          /\ calls' = [calls EXCEPT ![c] = [call EXCEPT !.pc = "done", !.res = "ok", !.user = row,
                                                       !.body.user = {WithoutSensitiveData(row)}]]
  /\ UNCHANGED <<now, issued, latest, rotated, revoked, nops>>

\* userRepository.save(user) inside the try: the table's unique email column
\* rejects a second row, and any failure of save becomes
\* InternalServerErrorException('Failed to register user').  Rows have
\* distinct emails, so an email that no row has always finds a free id.
RegisterSave(c) ==
  LET call == calls[c] IN
  /\ call.op = "register" /\ call.pc = "save"
  /\ IF FindByEmail(call.dto.email) # NoUser
     THEN /\ Fail(c, call, "InternalFailure")
          /\ UNCHANGED users
     ELSE LET id == CHOOSE i \in Ids : users[i] = NoUser /\ \A j \in Ids : j < i => users[j] # NoUser
              row == NewUser(id, call.dto) IN
          /\ users' = [users EXCEPT ![id] = row]
          /\ calls' = [calls EXCEPT ![c] = [call EXCEPT !.pc = "done", !.res = "ok", !.user = row,
                                                       !.body.user = {WithoutSensitiveData(row)}]]
  /\ UNCHANGED <<now, issued, latest, rotated, revoked, nops>>

(* -------------------------- generateTokens ----------------------------- *)
\* AuthService.generateTokens(user): both tokens carry {sub, email, role} of
\* the row the caller read
GenerateTokens(user, clock) ==
  LET payload == [sub |-> user.id, email |-> user.email, role |-> user.role] IN
  [accessToken |-> SignAsync(payload, "JWT_SECRET", clock),
   refreshToken |-> SignAsync(payload, "JWT_REFRESH_SECRET", clock)]

(* ------------------------------- login --------------------------------- *)
\* the password compared before the active flag is read
\* a login that tells an unknown email apart from a wrong password
LoginCheckTellingUnknown(user, password) ==
  IF user = NoUser THEN "UnknownEmail"
  ELSE IF ~user.isActive THEN "InactiveAccount"
  ELSE IF ~BcryptCompare(password, user.password) THEN "InvalidCredentials"
  ELSE "ok"

LoginCheckPasswordFirst(user, password) ==
  IF user = NoUser THEN "InvalidCredentials"
  ELSE IF ~BcryptCompare(password, user.password) THEN "InvalidCredentials"
  ELSE IF ~user.isActive THEN "InactiveAccount"
  ELSE "ok"

\* the three checks of login on the row it read
LoginCheck(user, password) ==
  IF user = NoUser THEN "InvalidCredentials"
  ELSE IF ~user.isActive THEN "InactiveAccount"
  ELSE IF ~BcryptCompare(password, user.password) THEN "InvalidCredentials"
  ELSE "ok"

\* AuthService.login, up to the password check
LoginFind(c) ==
  /\ Idle(c)
  /\ \E dto \in LoginDtos :
       LET user == FindByEmail(dto.email)
           seen == [NoObs EXCEPT
                      !.found = \E i \in Ids : users[i] # NoUser /\ users[i].email = dto.email,
                      !.active = \E i \in Ids : users[i] # NoUser /\ users[i].email = dto.email
                                                 /\ users[i].isActive,
                      !.pwOk = \E i \in Ids : users[i] # NoUser /\ users[i].email = dto.email
                                                 /\ BcryptCompare(dto.password, users[i].password)]
           call == [NoCall EXCEPT !.op = "login", !.dto = [NoDto EXCEPT !.email = dto.email,
                                                                       !.password = dto.password],
                                   !.user = user, !.obs = seen]
           kind == LoginCheck(user, dto.password) IN
       IF kind # "ok"
       THEN Fail(c, call, kind)
       ELSE calls' = [calls EXCEPT ![c] = [call EXCEPT !.pc = "sign"]]
  /\ nops' = nops + 1
  /\ UNCHANGED <<users, now, issued, latest, rotated, revoked>>

\* generateTokens(user), which reads the clock
LoginSign(c) ==
  LET call == calls[c]
      tokens == GenerateTokens(call.user, now) IN
  /\ call.op = "login" /\ call.pc = "sign"
  /\ calls' = [calls EXCEPT ![c] = [call EXCEPT !.pc = "update",
                                               !.accessToken = tokens.accessToken,
                                               !.refreshToken = tokens.refreshToken]]
  /\ UNCHANGED <<users, now, issued, latest, rotated, revoked, nops>>

\* an update that lacks its criteria and so writes every row
UpdateRefreshTokenOfAll(id, digest) ==
  [i \in Ids |-> IF users[i] # NoUser THEN [users[i] EXCEPT !.refreshToken = digest]
                 ELSE users[i]]

\* userRepository.update(user.id, { refreshToken: hashedRefreshToken })
UpdateRefreshToken(id, digest) ==
  IF id \in Ids /\ users[id] # NoUser
  THEN [users EXCEPT ![id].refreshToken = digest]
  ELSE users

\* a login that refuses a principal that holds a session already
LoginUpdateSingleSession(c) ==
  LET call == calls[c] IN
  /\ call.op = "login" /\ call.pc = "update"
  /\ IF users[call.user.id].refreshToken # NoHash
     THEN /\ Fail(c, [call EXCEPT !.accessToken = NoToken, !.refreshToken = NoToken],
                  "InvalidCredentials")
          /\ UNCHANGED <<users, issued, latest>>
     ELSE /\ users' = UpdateRefreshToken(call.user.id, BcryptHash(JwtString(call.refreshToken)))
          /\ calls' = [calls EXCEPT ![c] = [call EXCEPT !.pc = "done", !.res = "ok",
                                               !.body.user = {WithoutSensitiveData(call.user)},
                                               !.obs.activeAtEnd = users[call.user.id].isActive]]
          /\ issued' = issued \cup {call.accessToken, call.refreshToken}
          /\ latest' = [latest EXCEPT ![call.user.id] = call.refreshToken]
  /\ UNCHANGED <<now, rotated, revoked, nops>>

\* the update and the return of { ...tokens, user }
LoginUpdate(c) ==
  LET call == calls[c] IN
  /\ call.op = "login" /\ call.pc = "update"
  /\ users' = UpdateRefreshToken(call.user.id, BcryptHash(JwtString(call.refreshToken)))
  /\ calls' = [calls EXCEPT ![c] = [call EXCEPT !.pc = "done", !.res = "ok",
                                       !.body.user = {WithoutSensitiveData(call.user)},
                                       !.obs.activeAtEnd = users[call.user.id].isActive]]
  /\ issued' = issued \cup {call.accessToken, call.refreshToken}
  /\ latest' = [latest EXCEPT ![call.user.id] = call.refreshToken]
  /\ UNCHANGED <<now, rotated, revoked, nops>>

\* a login that swallows the error of its update and returns the pair
LoginUpdateFailsReturning(c) ==
  LET call == calls[c] IN
  /\ call.op = "login" /\ call.pc = "update"
  /\ calls' = [calls EXCEPT ![c] = [call EXCEPT !.pc = "done", !.res = "ok",
                                       !.body.user = {WithoutSensitiveData(call.user)}]]
  /\ issued' = issued \cup {call.accessToken, call.refreshToken}
  /\ UNCHANGED <<users, now, latest, rotated, revoked, nops>>

\* the update of login rejected by the store: the await throws, login has no
\* catch, and the request ends in an error response without the pair
LoginUpdateFails(c) ==
  LET call == calls[c] IN
  /\ call.op = "login" /\ call.pc = "update"
  /\ Fail(c, [call EXCEPT !.accessToken = NoToken, !.refreshToken = NoToken], "InternalFailure")
  /\ UNCHANGED <<users, now, issued, latest, rotated, revoked, nops>>

(* ------------------------------ refresh -------------------------------- *)
\* what callers can present as a token: any token returned so far, or a
\* string that is no token
Presentable == issued \cup {Garbage}

\* JwtRefreshStrategy.validate(req, payload)
JwtRefreshStrategyValidate(payload) ==
  LET user == FindActiveById(payload.sub) IN
  IF user = NoUser \/ user.refreshToken = NoHash THEN NoUser ELSE user

\* another refresh call in flight with the same token
Racing(d, tok) == calls[d].op = "refresh" /\ ~Free(d) /\ calls[d].tok = tok

\* a refresh endpoint that ends the principal's session when it refuses a token
RefreshGuardRevoking(c) ==
  /\ Idle(c)
  /\ \E tok \in Presentable :
       LET seen == [NoObs EXCEPT
                      !.stale = tok \in rotated,
                      !.wasRevoked = tok \in revoked,
                      !.sessionless = tok.sub \in Ids /\ latest[tok.sub] = NoToken,
                      !.tokLive = JwtVerify(tok, "JWT_REFRESH_SECRET", now),
                      !.expired = Expired(tok, now),
                      !.raced = \E d \in Calls \ {c} : Racing(d, tok)]
           call == [NoCall EXCEPT !.op = "refresh", !.tok = tok, !.obs = seen]
           user == JwtRefreshStrategyValidate(tok)
           mine == IF ~JwtVerify(tok, "JWT_REFRESH_SECRET", now)
                   THEN [call EXCEPT !.pc = "done", !.res = "Unauthenticated"]
                   ELSE IF user = NoUser
                   THEN [call EXCEPT !.pc = "done", !.res = "InvalidRefreshToken"]
                   ELSE [call EXCEPT !.pc = "find", !.user = user] IN
       /\ calls' = [d \in Calls |->
                      IF d = c THEN mine
                      ELSE IF Racing(d, tok) THEN [calls[d] EXCEPT !.obs.raced = TRUE]
                      ELSE calls[d]]
       /\ users' = IF mine.pc = "done" /\ tok.sub \in Ids
                   THEN [users EXCEPT ![tok.sub] =
                           IF @ = NoUser THEN @ ELSE [@ EXCEPT !.refreshToken = NoHash]]
                   ELSE users
  /\ nops' = nops + 1
  /\ UNCHANGED <<now, issued, latest, rotated, revoked>>

\* POST /auth/refresh through JwtRefreshGuard: passport-jwt verifies the body's
\* refreshToken under JWT_REFRESH_SECRET (401 when it does not), then the
\* strategy loads the active principal of the token's subject
RefreshGuard(c) ==
  /\ Idle(c)
  /\ \E tok \in Presentable :
       LET seen == [NoObs EXCEPT
                      !.stale = tok \in rotated,
                      !.wasRevoked = tok \in revoked,
                      !.sessionless = tok.sub \in Ids /\ latest[tok.sub] = NoToken,
                      !.tokLive = JwtVerify(tok, "JWT_REFRESH_SECRET", now),
                      !.expired = Expired(tok, now),
                      !.raced = \E d \in Calls \ {c} : Racing(d, tok)]
           call == [NoCall EXCEPT !.op = "refresh", !.tok = tok, !.obs = seen]
           user == JwtRefreshStrategyValidate(tok)
           mine == IF ~JwtVerify(tok, "JWT_REFRESH_SECRET", now)
                   THEN [call EXCEPT !.pc = "done", !.res = "Unauthenticated"]
                   ELSE IF user = NoUser
                   THEN [call EXCEPT !.pc = "done", !.res = "InvalidRefreshToken"]
                   ELSE [call EXCEPT !.pc = "find", !.user = user] IN
       calls' = [d \in Calls |->
                   IF d = c THEN mine
                   ELSE IF Racing(d, tok) THEN [calls[d] EXCEPT !.obs.raced = TRUE]
                   ELSE calls[d]]
  /\ nops' = nops + 1
  /\ UNCHANGED <<users, now, issued, latest, rotated, revoked>>

\* a comparison of the presented token against the password hash of the row
RefreshCheckAgainstPassword(user, refreshToken) ==
  IF user = NoUser \/ user.refreshToken = NoHash THEN "InvalidRefreshToken"
  ELSE IF ~BcryptCompare(JwtString(refreshToken), user.password) THEN "InvalidRefreshToken"
  ELSE "ok"

\* the two checks of refreshTokens on the row it read
RefreshCheck(user, refreshToken) ==
  IF user = NoUser \/ user.refreshToken = NoHash THEN "InvalidRefreshToken"
  ELSE IF ~BcryptCompare(JwtString(refreshToken), user.refreshToken) THEN "InvalidRefreshToken"
  ELSE "ok"

\* AuthService.refreshTokens(user.id, refreshToken), up to the comparison
RefreshFind(c) ==
  LET call == calls[c]
      user == FindById(call.user.id)
      kind == RefreshCheck(user, call.tok)
      seen == [call.obs EXCEPT !.wasLatest = call.tok = latest[call.user.id]] IN
  /\ call.op = "refresh" /\ call.pc = "find"
  /\ IF kind # "ok"
     THEN Fail(c, [call EXCEPT !.obs = seen], kind)
     ELSE calls' = [calls EXCEPT ![c] = [call EXCEPT !.pc = "sign", !.user = user, !.obs = seen]]
  /\ UNCHANGED <<users, now, issued, latest, rotated, revoked, nops>>

\* a refresh that signs the new pair with the claims of the presented token
RefreshSignCopyingClaims(c) ==
  LET call == calls[c]
      claims == [id |-> call.tok.sub, email |-> call.tok.email, role |-> call.tok.role]
      tokens == GenerateTokens(claims, now) IN
  /\ call.op = "refresh" /\ call.pc = "sign"
  /\ calls' = [calls EXCEPT ![c] = [call EXCEPT !.pc = "update",
                                               !.accessToken = tokens.accessToken,
                                               !.refreshToken = tokens.refreshToken]]
  /\ UNCHANGED <<users, now, issued, latest, rotated, revoked, nops>>

\* generateTokens(user), which reads the clock
RefreshSign(c) ==
  LET call == calls[c]
      tokens == GenerateTokens(call.user, now) IN
  /\ call.op = "refresh" /\ call.pc = "sign"
  /\ calls' = [calls EXCEPT ![c] = [call EXCEPT !.pc = "update",
                                               !.accessToken = tokens.accessToken,
                                               !.refreshToken = tokens.refreshToken]]
  /\ UNCHANGED <<users, now, issued, latest, rotated, revoked, nops>>

\* the update and the return of the tokens
RefreshUpdate(c) ==
  LET call == calls[c] IN
  /\ call.op = "refresh" /\ call.pc = "update"
  /\ users' = UpdateRefreshToken(call.user.id, BcryptHash(JwtString(call.refreshToken)))
  /\ calls' = [calls EXCEPT ![c] = [call EXCEPT !.pc = "done", !.res = "ok",
                                       !.obs.activeAtEnd = users[call.user.id].isActive]]
  /\ issued' = issued \cup {call.accessToken, call.refreshToken}
  /\ latest' = [latest EXCEPT ![call.user.id] = call.refreshToken]
  /\ rotated' = rotated \cup {call.tok}
  /\ UNCHANGED <<now, revoked, nops>>

\* the update of refreshTokens rejected by the store: the await throws and
\* the request ends in an error response without the pair
RefreshUpdateFails(c) ==
  LET call == calls[c] IN
  /\ call.op = "refresh" /\ call.pc = "update"
  /\ Fail(c, [call EXCEPT !.accessToken = NoToken, !.refreshToken = NoToken], "InternalFailure")
  /\ UNCHANGED <<users, now, issued, latest, rotated, revoked, nops>>

(* --------------------------- the bearer gate --------------------------- *)
\* a gate that trusts the role claim of the token over the row it reloads
JwtStrategyValidateFromClaims(payload) ==
  LET user == FindActiveById(payload.sub) IN
  IF user = NoUser THEN NoUser ELSE [user EXCEPT !.role = payload.role]

\* a gate that asks for a stored refresh hash, as the refresh strategy does
JwtStrategyValidateWithSession(payload) ==
  LET user == FindActiveById(payload.sub) IN
  IF user = NoUser \/ user.refreshToken = NoHash THEN NoUser ELSE user

\* JwtStrategy.validate(payload): the principal of the token's subject, reloaded
\* with the active flag required
JwtStrategyValidate(payload) == FindActiveById(payload.sub)

\* JwtAuthGuard: the bearer token verified under JWT_SECRET, then the strategy
JwtAuthGuard(tok, clock) ==
  IF JwtVerify(tok, "JWT_SECRET", clock) THEN JwtStrategyValidate(tok) ELSE NoUser

\* what a request behind the bearer gate met when the gate ran
Seen(tok) ==
  [NoObs EXCEPT
     !.sessionless = tok.sub \in Ids /\ latest[tok.sub] = NoToken,
     !.tokLive = JwtVerify(tok, "JWT_SECRET", now),
     !.expired = Expired(tok, now),
     !.found = tok.sub \in Ids /\ users[tok.sub] # NoUser,
     !.active = tok.sub \in Ids /\ users[tok.sub] # NoUser /\ users[tok.sub].isActive,
     !.inactiveAtStart = tok.sub \in Ids /\ users[tok.sub] # NoUser /\ ~users[tok.sub].isActive]

(* ---------------------------- the roles guard --------------------------- *)
\* reflector.getAllAndOverride(ROLES_KEY, [handler, class]): the handler's
\* metadata when it has any, else the class's
GetAllAndOverride(handler, class) == IF handler.defined THEN handler ELSE class

\* the guard with no case for an empty list: no role is a member of it
RolesGuardCanActivateNoEmptyCase(meta, user) ==
  LET requiredRoles == GetAllAndOverride(meta.handler, meta.class) IN
  IF ~requiredRoles.defined THEN TRUE
  ELSE user # NoUser /\ user.role \in requiredRoles.roles

\* a guard that lets a request without a principal through to the handler
RolesGuardCanActivateAnonymous(meta, user) ==
  LET requiredRoles == GetAllAndOverride(meta.handler, meta.class) IN
  IF ~requiredRoles.defined \/ requiredRoles.roles = {} THEN TRUE
  ELSE user = NoUser \/ user.role \in requiredRoles.roles

\* RolesGuard.canActivate(context): allow when no role is required, else allow
\* exactly when the request carries a principal whose role is a required one
RolesGuardCanActivate(meta, user) ==
  LET requiredRoles == GetAllAndOverride(meta.handler, meta.class) IN
  IF ~requiredRoles.defined \/ requiredRoles.roles = {} THEN TRUE
  ELSE user # NoUser /\ user.role \in requiredRoles.roles

\* the guard run on the request a call holds
RolesGuardApply(c) ==
  LET call == calls[c] IN
  /\ call.op = "guard" /\ call.pc = "roles"
  /\ calls' = [calls EXCEPT ![c] =
                 [call EXCEPT !.pc = "done",
                              !.res = IF RolesGuardCanActivate(call.required, call.user)
                                      THEN "ok" ELSE "Forbidden"]]
  /\ UNCHANGED <<users, now, issued, latest, rotated, revoked, nops>>

(* ------------------------------- logout -------------------------------- *)
\* POST /auth/logout through JwtAuthGuard
LogoutGuard(c) ==
  /\ Idle(c)
  /\ \E tok \in Presentable :
       LET call == [NoCall EXCEPT !.op = "logout", !.tok = tok, !.obs = Seen(tok)]
           user == JwtAuthGuard(tok, now) IN
       IF user = NoUser
       THEN Fail(c, call, "Unauthenticated")
       ELSE calls' = [calls EXCEPT ![c] = [call EXCEPT !.pc = "update", !.user = user]]
  /\ nops' = nops + 1
  /\ UNCHANGED <<users, now, issued, latest, rotated, revoked>>

\* a logout that refuses when there is no session to end
LogoutUpdateIfSession(c) ==
  LET call == calls[c]
      id == call.user.id IN
  /\ call.op = "logout" /\ call.pc = "update"
  /\ IF users[id].refreshToken = NoHash
     THEN /\ Fail(c, call, "InvalidRefreshToken")
          /\ UNCHANGED <<users, revoked, latest>>
     ELSE /\ users' = UpdateRefreshToken(id, NoHash)
          /\ calls' = [calls EXCEPT ![c] = [call EXCEPT !.pc = "done", !.res = "ok"]]
          /\ revoked' = revoked \cup ({latest[id]} \ {NoToken})
          /\ latest' = [latest EXCEPT ![id] = NoToken]
  /\ UNCHANGED <<now, issued, rotated, nops>>

\* AuthService.logout(userId)
LogoutUpdate(c) ==
  LET call == calls[c]
      id == call.user.id IN
  /\ call.op = "logout" /\ call.pc = "update"
  /\ users' = UpdateRefreshToken(id, NoHash)
  /\ calls' = [calls EXCEPT ![c] = [call EXCEPT !.pc = "done", !.res = "ok"]]
  /\ revoked' = revoked \cup ({latest[id]} \ {NoToken})
  /\ latest' = [latest EXCEPT ![id] = NoToken]
  /\ UNCHANGED <<now, issued, rotated, nops>>

(* ------------------------- the users controller ------------------------ *)
\* what a request can carry as its bearer token: a token returned so far, a
\* string that is no token, no Authorization header at all, or an access token
\* this service signed for a principal whose row is not in the table
Orphan == SignAsync([sub |-> 3, email |-> "gone@x.com", role |-> "admin"], "JWT_SECRET", 0)

Bearers == Presentable \cup {NoToken, Orphan}

\* the controller without its @UseGuards(JwtAuthGuard): no principal is
\* attached and the handler's read of user.id throws
GetProfileUnguarded(c) ==
  /\ Idle(c)
  /\ \E tok \in Presentable :
       LET call == [NoCall EXCEPT !.op = "profile", !.tok = tok, !.obs = Seen(tok)] IN
       Fail(c, call, "InternalFailure")
  /\ nops' = nops + 1
  /\ UNCHANGED <<users, now, issued, latest, rotated, revoked>>

\* GET /users/profile: the controller's JwtAuthGuard, then the handler on the
\* principal the gate attached
GetProfile(c) ==
  /\ Idle(c)
  /\ \E tok \in Presentable :
       LET call == [NoCall EXCEPT !.op = "profile", !.tok = tok, !.obs = Seen(tok)]
           user == JwtAuthGuard(tok, now) IN
       IF user = NoUser
       THEN Fail(c, call, "Unauthenticated")
       ELSE calls' = [calls EXCEPT ![c] =
                        [call EXCEPT !.pc = "done", !.res = "ok", !.user = user,
                                     !.body.user = {WithoutSensitiveData(user)}]]
  /\ nops' = nops + 1
  /\ UNCHANGED <<users, now, issued, latest, rotated, revoked>>

\* @Roles(UserRole.ADMIN) on getAllUsers, with moderators let in as well
GetAllUsersRolesWithModerator ==
  [handler |-> RolesOf({"admin", "moderator"}), class |-> NoRoles]

\* @Roles(UserRole.ADMIN) on getAllUsers; the controller class has no @Roles
GetAllUsersRoles == [handler |-> RolesOf({"admin"}), class |-> NoRoles]

\* @Roles(UserRole.ADMIN, UserRole.MODERATOR) on getAdminDashboard
GetAdminDashboardRoles == [handler |-> RolesOf({"admin", "moderator"}), class |-> NoRoles]

\* the handler's guard run before the controller's: the request has no
\* principal yet when the roles are evaluated
GuardsRolesFirst(op, meta, tok) ==
  LET call == [NoCall EXCEPT !.op = op, !.tok = tok, !.required = meta, !.obs = Seen(tok)]
      user == JwtAuthGuard(tok, now) IN
  IF ~RolesGuardCanActivate(meta, NoUser)
  THEN [call EXCEPT !.pc = "done", !.res = "Forbidden"]
  ELSE IF user = NoUser
  THEN [call EXCEPT !.pc = "done", !.res = "Unauthenticated"]
  ELSE [call EXCEPT !.pc = "handler", !.user = user]

\* the guards of a role-protected route in the order Nest runs them: the
\* controller's JwtAuthGuard, then the handler's RolesGuard on the principal
\* the gate attached.  The call as it stands when the handler is entered
\* (pc "handler") or the request is refused.
Guards(op, meta, tok) ==
  LET call == [NoCall EXCEPT !.op = op, !.tok = tok, !.required = meta, !.obs = Seen(tok)]
      user == JwtAuthGuard(tok, now) IN
  IF user = NoUser
  THEN [call EXCEPT !.pc = "done", !.res = "Unauthenticated"]
  ELSE IF ~RolesGuardCanActivate(meta, user)
  THEN [call EXCEPT !.pc = "done", !.res = "Forbidden"]
  ELSE [call EXCEPT !.pc = "handler", !.user = user]

\* GET /users/all, up to the handler's await of usersService.findAll()
GetAllUsersGuard(c) ==
  /\ Idle(c)
  /\ \E tok \in Bearers :
       calls' = [calls EXCEPT ![c] = Guards("all", GetAllUsersRoles, tok)]
  /\ nops' = nops + 1
  /\ UNCHANGED <<users, now, issued, latest, rotated, revoked>>

\* UsersService.findAll(): find with select id, email, role, isActive,
\* createdAt, updatedAt
FindAll == {WithoutSensitiveData(r) : r \in Rows}

\* the rest of getAllUsers: the list read from the store, and the return
GetAllUsersFind(c) ==
  LET call == calls[c] IN
  /\ call.op = "all" /\ call.pc = "handler"
  /\ calls' = [calls EXCEPT ![c] =
                 [call EXCEPT !.pc = "done", !.res = "ok",
                              !.body = [user |-> {[id |-> call.user.id, email |-> call.user.email,
                                                   role |-> call.user.role]},
                                        users |-> FindAll]]]
  /\ UNCHANGED <<users, now, issued, latest, rotated, revoked, nops>>

\* GET /users/admin-dashboard
GetAdminDashboard(c) ==
  /\ Idle(c)
  /\ \E tok \in Bearers :
       LET call == Guards("adminDashboard", GetAdminDashboardRoles, tok) IN
       calls' = [calls EXCEPT ![c] =
                   IF call.pc # "handler" THEN call
                   ELSE [call EXCEPT !.pc = "done", !.res = "ok",
                                     !.body.user = {[id |-> call.user.id, email |-> call.user.email,
                                                     role |-> call.user.role]}]]
  /\ nops' = nops + 1
  /\ UNCHANGED <<users, now, issued, latest, rotated, revoked>>

\* GET /users/user-dashboard: the controller's JwtAuthGuard only
GetUserDashboard(c) ==
  /\ Idle(c)
  /\ \E tok \in Bearers :
       LET call == [NoCall EXCEPT !.op = "userDashboard", !.tok = tok, !.obs = Seen(tok)]
           user == JwtAuthGuard(tok, now) IN
       IF user = NoUser
       THEN Fail(c, call, "Unauthenticated")
       ELSE calls' = [calls EXCEPT ![c] =
                        [call EXCEPT !.pc = "done", !.res = "ok", !.user = user,
                                     !.body.user = {[id |-> user.id, email |-> user.email,
                                                     role |-> user.role]}]]
  /\ nops' = nops + 1
  /\ UNCHANGED <<users, now, issued, latest, rotated, revoked>>

(* ------------------------------ environment ---------------------------- *)
\* the wall clock
Tick ==
  /\ now < MaxTime
  /\ now' = now + 1
  /\ UNCHANGED <<users, calls, issued, latest, rotated, revoked, nops>>

\* an account is disabled: the row's active flag is cleared in the store
Deactivate(id) ==
  /\ users[id] # NoUser
  /\ users[id].isActive
  /\ users' = [users EXCEPT ![id].isActive = FALSE]
  /\ UNCHANGED <<now, calls, issued, latest, rotated, revoked, nops>>

Next ==
  \/ \E c \in Calls : RegisterFind(c)
  \/ \E c \in Calls : RegisterSave(c)
  \/ \E c \in Calls : LoginFind(c)
  \/ \E c \in Calls : LoginSign(c)
  \/ \E c \in Calls : LoginUpdate(c)
  \/ \E c \in Calls : RefreshGuard(c)
  \/ \E c \in Calls : RefreshFind(c)
  \/ \E c \in Calls : RefreshSign(c)
  \/ \E c \in Calls : RefreshUpdate(c)
  \/ \E c \in Calls : LogoutGuard(c)
  \/ \E c \in Calls : LogoutUpdate(c)
  \/ \E c \in Calls : GetProfile(c)
  \/ \E id \in Ids : Deactivate(id)
  \/ Tick

Spec == Init /\ [][Next]_vars

(* the service after its first registration: the session operations on a     *)
(* table that holds one principal                                            *)
InitSession ==
  /\ users = [i \in Ids |->
                IF i = 1
                THEN NewUser(1, [email |-> "user@x.com", password |-> Secret123, role |-> ""])
                ELSE NoUser]
  /\ now = 0
  /\ calls = [c \in Calls |-> NoCall]
  /\ issued = {}
  /\ latest = [i \in Ids |-> NoToken]
  /\ rotated = {}
  /\ revoked = {}
  /\ nops = 0

NextSession ==
  \/ \E c \in Calls : LoginFind(c)
  \/ \E c \in Calls : LoginSign(c)
  \/ \E c \in Calls : LoginUpdate(c)
  \/ \E c \in Calls : RefreshGuard(c)
  \/ \E c \in Calls : RefreshFind(c)
  \/ \E c \in Calls : RefreshSign(c)
  \/ \E c \in Calls : RefreshUpdate(c)
  \/ \E c \in Calls : LogoutGuard(c)
  \/ \E c \in Calls : LogoutUpdate(c)
  \/ \E c \in Calls : GetProfile(c)
  \/ \E id \in Ids : Deactivate(id)
  \/ Tick

SpecSession == InitSession /\ [][NextSession]_vars

\* the role column of a row set in the table by its operator, outside the
\* service, which has no operation that writes it
SetRole(row, role) == [row EXCEPT !.role = role]

(* the users controller in front of one principal, of any role, that has    *)
(* registered and logged in at second 0 and whose role in the table is any  *)
(* role, the one its tokens carry or another                                *)
InitUsers ==
  \E r, s \in Roles :
    LET row == NewUser(1, [email |-> "user@x.com", password |-> Secret123, role |-> r])
        tokens == GenerateTokens(row, 0) IN
    /\ users = [i \in Ids |->
                 IF i = 1
                 THEN SetRole([row EXCEPT !.refreshToken = BcryptHash(JwtString(tokens.refreshToken))], s)
                 ELSE NoUser]
    /\ now = 0
    /\ calls = [c \in Calls |-> NoCall]
    /\ issued = {tokens.accessToken, tokens.refreshToken}
    /\ latest = [i \in Ids |-> IF i = 1 THEN tokens.refreshToken ELSE NoToken]
    /\ rotated = {}
    /\ revoked = {}
    /\ nops = 0

NextUsers ==
  \/ \E c \in Calls : GetProfile(c)
  \/ \E c \in Calls : GetAllUsersGuard(c)
  \/ \E c \in Calls : GetAllUsersFind(c)
  \/ \E c \in Calls : GetAdminDashboard(c)
  \/ \E c \in Calls : GetUserDashboard(c)
  \/ \E id \in Ids : Deactivate(id)
  \/ Tick

SpecUsers == InitUsers /\ [][NextUsers]_vars

(* the session operations in front of that principal, within one second:   *)
(* its tokens are reissued by logins and refreshes while the table holds    *)
(* the role it has                                                          *)
NextRenew ==
  \/ \E c \in Calls : LoginFind(c)
  \/ \E c \in Calls : LoginSign(c)
  \/ \E c \in Calls : LoginUpdate(c)
  \/ \E c \in Calls : RefreshGuard(c)
  \/ \E c \in Calls : RefreshFind(c)
  \/ \E c \in Calls : RefreshSign(c)
  \/ \E c \in Calls : RefreshUpdate(c)

SpecRenew == InitUsers /\ [][NextRenew]_vars

(* registration, login and the two reads of principals, on a clock that     *)
(* stands still: the operations whose responses show a principal             *)
NextAccounts ==
  \/ \E c \in Calls : RegisterFind(c)
  \/ \E c \in Calls : RegisterSave(c)
  \/ \E c \in Calls : LoginFind(c)
  \/ \E c \in Calls : LoginSign(c)
  \/ \E c \in Calls : LoginUpdate(c)
  \/ \E c \in Calls : GetProfile(c)
  \/ \E c \in Calls : GetAllUsersGuard(c)
  \/ \E c \in Calls : GetAllUsersFind(c)
  \/ \E id \in Ids : Deactivate(id)

SpecAccounts == Init /\ [][NextAccounts]_vars

(* registration and the session operations on a store whose writes can     *)
(* fail                                                                     *)
NextStore ==
  \/ \E c \in Calls : RegisterFind(c)
  \/ \E c \in Calls : RegisterSave(c)
  \/ \E c \in Calls : LoginFind(c)
  \/ \E c \in Calls : LoginSign(c)
  \/ \E c \in Calls : LoginUpdate(c)
  \/ \E c \in Calls : LoginUpdateFails(c)
  \/ \E c \in Calls : RefreshGuard(c)
  \/ \E c \in Calls : RefreshFind(c)
  \/ \E c \in Calls : RefreshSign(c)
  \/ \E c \in Calls : RefreshUpdate(c)
  \/ \E c \in Calls : RefreshUpdateFails(c)
  \/ Tick

SpecStore == Init /\ [][NextStore]_vars

(* the four operations of the service, within one second, with the steps   *)
(* of a started call                                                       *)
(* scheduled fairly: the event loop runs the continuation of every await   *)
(* whose promise has settled, and the store and the hasher settle theirs   *)
Continue(c) ==
  \/ RegisterSave(c)
  \/ LoginSign(c)
  \/ LoginUpdate(c)
  \/ LoginUpdateFails(c)
  \/ RefreshFind(c)
  \/ RefreshSign(c)
  \/ RefreshUpdate(c)
  \/ RefreshUpdateFails(c)
  \/ LogoutUpdate(c)

NextLive ==
  \/ \E c \in Calls : RegisterFind(c)
  \/ \E c \in Calls : LoginFind(c)
  \/ \E c \in Calls : RefreshGuard(c)
  \/ \E c \in Calls : LogoutGuard(c)
  \/ \E c \in Calls : Continue(c)

SpecLive == Init /\ [][NextLive]_vars /\ \A c \in Calls : WF_vars(Continue(c))

(* the roles guard on its own: every metadata a handler and a class can     *)
(* carry, against every principal a request can carry                       *)
Metadata == {NoRoles} \cup {RolesOf(rs) : rs \in SUBSET Roles}

\* the request's user: none, a row of each role, active or not, or an object
\* with no role property
GuardUsers ==
  {NoUser} \cup
  { [NoUser EXCEPT !.id = 1, !.email = e, !.role = r, !.isActive = a] :
      e \in {"user@x.com", "USER@x.com"}, r \in Roles \cup {""}, a \in BOOLEAN }

InitGuard ==
  /\ users = [i \in Ids |-> NoUser]
  /\ now = 0
  /\ \E h, k \in Metadata, u \in GuardUsers :
       calls = [c \in Calls |->
                  IF c = 1
                  THEN [NoCall EXCEPT !.op = "guard", !.pc = "roles",
                                      !.required = [handler |-> h, class |-> k], !.user = u]
                  ELSE NoCall]
  /\ issued = {}
  /\ latest = [i \in Ids |-> NoToken]
  /\ rotated = {}
  /\ revoked = {}
  /\ nops = 0

NextGuard == \E c \in Calls : RolesGuardApply(c)

SpecGuard == InitGuard /\ [][NextGuard]_vars

(* ------------------------------- claims -------------------------------- *)
Ended(c) == calls[c].pc = "done"
Refreshes == {c \in Calls : calls[c].op = "refresh"}
Logins == {c \in Calls : calls[c].op = "login"}
RefreshTokens == {t \in issued : t.secret = "JWT_REFRESH_SECRET"}
Failed(c) == calls[c].res \in {"InvalidRefreshToken", "Unauthenticated"}

\* C1: a refresh token that a successful refresh has consumed is rejected by
\* every refresh call made afterwards, with InvalidRefreshToken while it is
\* unexpired.  (A consumed token that has been issued again, identically, and
\* is the one whose hash is stored when the call compares is left aside: that
\* is C4.)
C1_RotatedTokenRejected ==
  \A c \in Refreshes :
    (Ended(c) /\ calls[c].obs.stale /\ ~calls[c].obs.wasLatest) =>
       /\ Failed(c)
       /\ calls[c].obs.tokLive => calls[c].res = "InvalidRefreshToken"

\* C2: of two refresh calls that present the same token and overlap in time,
\* at most one succeeds.
C2_OneConcurrentRefreshWins ==
  \A c, d \in Refreshes :
    (/\ c # d
     /\ Ended(c) /\ Ended(d)
     /\ calls[c].tok = calls[d].tok
     /\ calls[c].obs.raced /\ calls[d].obs.raced)
    => ~(calls[c].res = "ok" /\ calls[d].res = "ok")

\* the refresh tokens issued to principal i that the comparison of
\* refreshTokens accepts against the hash stored now
Accepted(i) ==
  {t \in RefreshTokens : t.sub = i /\ BcryptCompare(JwtString(t), users[i].refreshToken)}

\* C3: the stored refresh hash of every principal is null, and then no issued
\* refresh token is accepted, or it matches exactly one of the refresh tokens
\* issued to that principal.
C3_OneLiveRefreshToken ==
  \A i \in Ids :
    users[i] # NoUser =>
      IF users[i].refreshToken = NoHash
      THEN Accepted(i) = {}
      ELSE Cardinality(Accepted(i)) = 1

\* C4: a successful refresh returns a refresh token different from the one
\* presented to it.
C4_RefreshReturnsNewToken ==
  \A c \in Refreshes :
    (Ended(c) /\ calls[c].res = "ok") => calls[c].refreshToken # calls[c].tok

\* the secrets the service hashes: the passwords and the refresh tokens issued
Secrets == {Secret123, Other1234} \cup {JwtString(t) : t \in RefreshTokens}

\* C5: for all secrets s1 and s2, verify(s2, hash(s1)) is true exactly when
\* s1 = s2.
C5_VerifyIffEqual ==
  \A s1, s2 \in Secrets : BcryptCompare(s2, BcryptHash(s1)) <=> (s1 = s2)

\* C6: a refresh call made after a logout has completed, with the refresh
\* token that was valid before that logout, fails, with InvalidRefreshToken
\* while the token is unexpired.  (A revoked token that has been issued again,
\* identically, and is the one whose hash is stored when the call compares is
\* left aside: that is C4.)
C6_LogoutRevokes ==
  \A c \in Refreshes :
    (Ended(c) /\ calls[c].obs.wasRevoked /\ ~calls[c].obs.wasLatest) =>
       /\ Failed(c)
       /\ calls[c].obs.tokLive => calls[c].res = "InvalidRefreshToken"

\* the part of C6 that holds: a refresh call made while the principal of its
\* token has no stored refresh hash (never logged in, or logged out and no hash
\* written since) fails, whatever token it presents
NullHashRefused ==
  \A c \in Refreshes :
    (Ended(c) /\ calls[c].obs.sessionless) =>
       /\ Failed(c)
       /\ calls[c].obs.tokLive => calls[c].res = "InvalidRefreshToken"

\* a refresh call presented, after the logout, the unexpired refresh token the
\* logout revoked, and was refused
NullHashRefused_Witness ==
  \E c \in Refreshes :
    /\ Ended(c)
    /\ calls[c].obs.sessionless /\ calls[c].obs.wasRevoked /\ calls[c].obs.tokLive
    /\ calls[c].res = "InvalidRefreshToken"

\* C7: refresh accepts only the refresh token of the most recent successful
\* login or refresh of the principal.
C7_OnlyLatestTokenAccepted ==
  \A c \in Refreshes :
    (Ended(c) /\ calls[c].res = "ok") => calls[c].obs.wasLatest

\* the outcome the claim gives a login from what the store held when it was read
LoginOutcome(seen) ==
  IF ~seen.found THEN "InvalidCredentials"
  ELSE IF ~seen.active THEN "InactiveAccount"
  ELSE IF ~seen.pwOk THEN "InvalidCredentials"
  ELSE "ok"

\* C8: login fails with InvalidCredentials when no principal has the email,
\* with InactiveAccount when the principal is inactive, with
\* InvalidCredentials when the password does not verify, and otherwise goes on
\* to succeed with an access token, a refresh token and the principal.
C8_LoginOutcome ==
  \A c \in Logins :
    /\ Ended(c) => calls[c].res = LoginOutcome(calls[c].obs)
    /\ ~Ended(c) => LoginOutcome(calls[c].obs) = "ok"
    /\ (Ended(c) /\ calls[c].res = "ok") =>
          /\ calls[c].accessToken.secret = "JWT_SECRET"
          /\ calls[c].refreshToken.secret = "JWT_REFRESH_SECRET"
          /\ calls[c].user.email = calls[c].dto.email
    /\ (Ended(c) /\ calls[c].res # "ok") =>
          calls[c].accessToken = NoToken /\ calls[c].refreshToken = NoToken

\* one login ended in success while another, with the right password for a
\* principal that is inactive, ended in InactiveAccount
C8_Witness ==
  \E c, d \in Logins :
    /\ Ended(c) /\ calls[c].res = "ok"
    /\ Ended(d) /\ calls[d].res = "InactiveAccount" /\ calls[d].obs.pwOk

\* C9: no login made while the principal is inactive ends in success, and no
\* refresh ends in success for a principal that is inactive when it ends,
\* deactivated before the call or during it.
C9_InactiveNeverAuthenticates ==
  /\ \A c \in Logins : (Ended(c) /\ calls[c].res = "ok") => calls[c].obs.active
  /\ \A c \in Refreshes : (Ended(c) /\ calls[c].res = "ok") => calls[c].obs.activeAtEnd

\* C10: a request to an operation behind the bearer gate (profile, logout)
\* made while the principal of its token is inactive is refused as
\* unauthenticated, whether or not the token has expired.
C10_DeactivationTakesEffect ==
  \A c \in Calls :
    (calls[c].op \in {"profile", "logout"} /\ calls[c].obs.inactiveAtStart) =>
       Ended(c) /\ calls[c].res = "Unauthenticated"

\* a protected request carried an access token issued to the principal while
\* active, still unexpired, after the deactivation, and was refused
C10_Witness ==
  \E c \in Calls :
    /\ calls[c].op = "profile" /\ Ended(c)
    /\ calls[c].tok \in issued
    /\ calls[c].obs.inactiveAtStart /\ calls[c].obs.tokLive
    /\ calls[c].res = "Unauthenticated"

\* the required-role set of a request: none when the metadata is absent
Required(meta) == GetAllAndOverride(meta.handler, meta.class).roles

Guarded == {c \in Calls : calls[c].op = "guard"}

\* C11: for every required-role set R and every principal role r, the guard
\* allows when R is empty or absent and otherwise allows exactly when r is a
\* member of R; two requests with the same R and the same role get the same
\* decision whatever else differs (the principal's email, its active flag,
\* where the metadata sits).
C11_AccessDecision ==
  /\ \A c \in Guarded :
       Ended(c) =>
         (calls[c].res = "ok" <=>
            (Required(calls[c].required) = {}
               \/ calls[c].user.role \in Required(calls[c].required)))
  /\ \A c \in Guarded : Ended(c) => calls[c].res \in {"ok", "Forbidden"}

\* the guard allowed a moderator where admin and moderator are required, on
\* metadata that sits on the handler
C11_Witness ==
  \E c \in Guarded :
    /\ Ended(c) /\ calls[c].res = "ok"
    /\ calls[c].required.handler = RolesOf({"admin", "moderator"})
    /\ calls[c].user.role = "moderator"

RoleProtected == {c \in Calls : calls[c].op \in {"all", "adminDashboard"}}
Routed == {c \in Calls : calls[c].op \in {"profile", "userDashboard", "all", "adminDashboard"}}

\* the request carried an access token of this service, unexpired when the
\* gate ran, whose principal was then in the table and active
Authenticated(c) ==
  /\ calls[c].tok.secret = "JWT_SECRET"
  /\ ~calls[c].obs.expired
  /\ calls[c].obs.found /\ calls[c].obs.active

\* C12: a request to a role-protected operation (list all users, admin
\* dashboard) with no bearer token, a malformed or expired one, or one whose
\* principal is absent or inactive ends as Unauthenticated; one that ends as
\* Forbidden passed authentication.
C12_AuthenticationFirst ==
  \A c \in RoleProtected :
    /\ ~Authenticated(c) => (Ended(c) /\ calls[c].res = "Unauthenticated")
    /\ calls[c].res = "Forbidden" => Authenticated(c)

\* an unexpired access token of a deactivated principal, whose role the route
\* does not admit, was refused as Unauthenticated
C12_Witness ==
  \E c \in RoleProtected :
    /\ calls[c].tok \in issued /\ calls[c].tok.secret = "JWT_SECRET"
    /\ ~calls[c].obs.expired /\ calls[c].obs.inactiveAtStart
    /\ users[calls[c].tok.sub].role = "user"
    /\ calls[c].res = "Unauthenticated"

\* the roles each operation of the users controller admits
Admits(op, role) ==
  IF op = "all" THEN role = "admin"
  ELSE IF op = "adminDashboard" THEN role \in {"admin", "moderator"}
  ELSE role \in Roles

\* C13: for an authenticated active principal, list-all-users goes through
\* for admin only, the admin dashboard for admin and moderator only, profile
\* and user dashboard for all three roles; every other request of such a
\* principal ends as Forbidden.
C13_RoutePolicy ==
  \A c \in Routed :
    Authenticated(c) =>
      IF Admits(calls[c].op, users[calls[c].tok.sub].role)
      THEN IF Ended(c) THEN calls[c].res = "ok"
           ELSE calls[c].op = "all" /\ calls[c].pc = "handler"
      ELSE Ended(c) /\ calls[c].res = "Forbidden"

\* a moderator, authenticated and active, was refused the list of all users
C13_Witness ==
  \E c \in Routed :
    /\ Authenticated(c)
    /\ users[calls[c].tok.sub].role = "moderator"
    /\ calls[c].op = "all" /\ calls[c].res = "Forbidden"

Registers == {c \in Calls : calls[c].op = "register"}

\* a register call ends, at this step, as DuplicateIdentity
RefusedAsDuplicate(c) ==
  /\ calls'[c] # calls[c]
  /\ calls'[c].op = "register" /\ calls'[c].res = "DuplicateIdentity"

\* C14: a register call whose email a principal already has when the call
\* looks it up ends as DuplicateIdentity, and the step that refuses it leaves
\* the table as it was: no row added, every row with the password hash, role,
\* active flag and refresh hash it had.
C14_DuplicateRegistration ==
  /\ [](\A c \in Registers :
          calls[c].obs.found => (Ended(c) /\ calls[c].res = "DuplicateIdentity"))
  /\ [][\A c \in Calls : RefusedAsDuplicate(c) => users' = users]_vars

\* the email of a principal that has logged in, and so has a refresh hash, was
\* registered again and refused
C14_Witness ==
  \E c \in Registers :
    /\ Ended(c) /\ calls[c].obs.found /\ calls[c].res = "DuplicateIdentity"
    /\ \E i \in Ids : /\ users[i] # NoUser
                      /\ users[i].email = calls[c].dto.email
                      /\ users[i].refreshToken # NoHash

\* C15: every register call ends in success or in DuplicateIdentity, also
\* when another register call with the same email is in flight: of two such
\* calls one succeeds and the other ends as DuplicateIdentity.
C15_ConcurrentRegistration ==
  \A c \in Registers : Ended(c) => calls[c].res \in {"ok", "DuplicateIdentity"}

\* C16: no two principals have the same email; emails that differ only in
\* letter case are different identities: a login ends as InvalidCredentials
\* unless a principal has the email exactly as given, and the principal a
\* login finds has that very email.
C16_EmailUniqueness ==
  /\ \A i, j \in Ids :
       (i # j /\ users[i] # NoUser /\ users[j] # NoUser) => users[i].email # users[j].email
  /\ \A c \in Logins :
       /\ ~calls[c].obs.found => (Ended(c) /\ calls[c].res = "InvalidCredentials")
       /\ calls[c].obs.found => calls[c].user.email = calls[c].dto.email
  /\ \A c \in Registers :
       (Ended(c) /\ calls[c].res = "DuplicateIdentity") => calls[c].obs.found

\* two principals whose emails differ only in letter case are both in the
\* table, and a login with the one email and the other's password, made
\* before the second was registered, found no principal
C16_Witness ==
  /\ users[1] # NoUser /\ users[2] # NoUser
  /\ users[1].email # users[2].email
  /\ LowerCase(users[1].email) = LowerCase(users[2].email)
  /\ \E c \in Logins :
       /\ Ended(c) /\ ~calls[c].obs.found /\ calls[c].res = "InvalidCredentials"
       /\ calls[c].dto.email = users[2].email
       /\ BcryptCompare(calls[c].dto.password, users[1].password)

Logouts == {c \in Calls : calls[c].op = "logout"}

\* the table with the refresh hash of principal id set to null
Cleared(tbl, id) == [tbl EXCEPT ![id].refreshToken = NoHash]

\* the step in which logout(p), called for call c, runs
LogoutRuns(c) ==
  /\ calls[c].op = "logout" /\ calls[c].pc = "update"
  /\ calls'[c] # calls[c]

\* C17: whenever logout(p) runs it ends in success and leaves the table as it
\* was but for the refresh hash of p, which is null, whatever it was before;
\* run on a table where that hash is null already it changes nothing, so two
\* or more runs in a row leave what one run leaves.
C17_LogoutIdempotent ==
  [][\A c \in Calls :
       LogoutRuns(c) =>
         /\ calls'[c].pc = "done" /\ calls'[c].res = "ok"
         /\ users' = Cleared(users, calls[c].user.id)
         /\ users'[calls[c].user.id].refreshToken = NoHash
         /\ Cleared(users', calls[c].user.id) = users'
         /\ users[calls[c].user.id].refreshToken = NoHash => users' = users]_vars

\* two logouts of one principal, in flight together, have both run and both
\* ended in success: the second ran on the null hash the first had left
C17_Witness ==
  \E c, d \in Logouts :
    /\ c # d
    /\ Ended(c) /\ calls[c].res = "ok"
    /\ Ended(d) /\ calls[d].res = "ok"
    /\ calls[c].user.id = calls[d].user.id
    /\ users[calls[c].user.id].refreshToken = NoHash

Bearing == {c \in Calls : calls[c].op \in {"profile", "logout"}}

\* C18: a refresh call that presents an access token is refused, and a
\* request behind the bearer gate (profile, logout) that carries a refresh
\* token is refused, whoever the principal is and whether or not the token has
\* expired.
C18_TokenKindsApart ==
  /\ \A c \in Refreshes :
       calls[c].tok.secret = "JWT_SECRET" => (Ended(c) /\ calls[c].res = "Unauthenticated")
  /\ \A c \in Bearing :
       calls[c].tok.secret = "JWT_REFRESH_SECRET" =>
         (Ended(c) /\ calls[c].res = "Unauthenticated")

\* a refresh was refused the unexpired access token of an active principal
\* whose stored refresh hash the token's first 72 bytes would have matched
C18_Witness ==
  \E c \in Refreshes :
    /\ calls[c].tok \in issued /\ calls[c].tok.secret = "JWT_SECRET"
    /\ ~calls[c].obs.expired /\ calls[c].res = "Unauthenticated"
    /\ users[calls[c].tok.sub].isActive
    /\ BcryptCompare(JwtString(calls[c].tok), users[calls[c].tok.sub].refreshToken)

\* a call is refused, at this step, an expired token
RefusedAsExpired(c) ==
  /\ calls'[c] # calls[c]
  /\ calls'[c].obs.expired

\* C19: a call that presents a token at or after its expiry instant (refresh,
\* profile, logout) is refused, and the step that refuses it leaves the table,
\* stored refresh hashes included, as it was.
C19_Expiry ==
  /\ [](\A c \in Refreshes \cup Bearing :
          calls[c].obs.expired => (Ended(c) /\ calls[c].res = "Unauthenticated"))
  /\ [][\A c \in Calls : RefusedAsExpired(c) => users' = users]_vars

\* a refresh was refused a refresh token at its expiry instant, the token of
\* the principal's latest login, whose hash is still the stored one
C19_Witness ==
  \E c \in Refreshes :
    /\ Ended(c) /\ calls[c].obs.expired /\ calls[c].res = "Unauthenticated"
    /\ calls[c].tok.secret = "JWT_REFRESH_SECRET"
    /\ now = calls[c].tok.exp
    /\ calls[c].tok = latest[calls[c].tok.sub]
    /\ users[calls[c].tok.sub].isActive
    /\ BcryptCompare(JwtString(calls[c].tok), users[calls[c].tok.sub].refreshToken)

\* the fields of a stored row that a response must not show
Sensitive == {"password", "refreshToken"}

\* C20: no principal shown in the response of register, login, profile or
\* list-all-users, and no element of the list, has a password or a
\* refreshToken field.
C20_NoSecretLeaves ==
  \A c \in Calls :
    /\ \A v \in calls[c].body.user : DOMAIN v \cap Sensitive = {}
    /\ \A v \in calls[c].body.users : DOMAIN v \cap Sensitive = {}

\* the list of all users was returned to an admin while a principal in it had
\* a password hash and a refresh hash stored, and every row is in the list
C20_Witness ==
  \E c \in Calls :
    /\ calls[c].op = "all" /\ Ended(c) /\ calls[c].res = "ok"
    /\ Cardinality(calls[c].body.users) = Cardinality(Rows)
    /\ Cardinality(calls[c].body.users) = 2
    /\ \E i \in Ids : users[i].refreshToken # NoHash /\ users[i].password # NoHash

\* ---------------------------------------------------------------------------
\* C21  Anti-enumeration.  A login with an email of no principal and a login
\* with a wrong password for an existing active principal end the same way:
\* the same failure (the exception and its message, which res names), no
\* tokens and no body, for every pair of such calls.
\* what a caller can see of an ended call
Response(c) ==
  [res |-> calls[c].res, body |-> calls[c].body,
   accessToken |-> calls[c].accessToken, refreshToken |-> calls[c].refreshToken]

UnknownEmail(c) == c \in Logins /\ Ended(c) /\ ~calls[c].obs.found

WrongPassword(c) ==
  c \in Logins /\ Ended(c) /\ calls[c].obs.found /\ calls[c].obs.active /\ ~calls[c].obs.pwOk

C21_AntiEnumeration ==
  \A c, d \in Calls :
    UnknownEmail(c) /\ WrongPassword(d) =>
      /\ Response(c) = Response(d)
      /\ calls[c].res = "InvalidCredentials"

\* both refusals side by side, for different emails and passwords
C21_Witness ==
  \E c, d \in Calls :
    /\ UnknownEmail(c) /\ WrongPassword(d)
    /\ calls[c].dto.email # calls[d].dto.email
    /\ calls[c].dto.password # calls[d].dto.password

\* ---------------------------------------------------------------------------
\* C22  Role closure and default.  A registration without a role stores the
\* role user and one with a role stores exactly that role; in every reachable
\* state every principal's role is one of user, moderator, admin; and no step
\* changes the role of a principal.
RoleAsked(dto) == IF dto.role = "" THEN "user" ELSE dto.role

Registered(c) == c \in Registers /\ Ended(c) /\ calls[c].res = "ok"

RoleClosure == \A i \in Ids : users[i] # NoUser => users[i].role \in Roles

RoleStored ==
  \A c \in Calls :
    Registered(c) =>
      /\ users[calls[c].user.id].role = RoleAsked(calls[c].dto)
      /\ \A u \in calls[c].body.user : u.role = RoleAsked(calls[c].dto)

RoleKept == \A i \in Ids : users[i] # NoUser => users'[i] # NoUser /\ users'[i].role = users[i].role

C22_RoleClosure == [](RoleClosure /\ RoleStored) /\ [][RoleKept]_vars

\* a principal registered without a role and one registered as admin, the
\* first of them having gone through a login and a deactivation
C22_Witness ==
  /\ \E c \in Calls : Registered(c) /\ calls[c].dto.role = "admin"
  /\ \E i \in Ids : users[i] # NoUser /\ users[i].role = "user" /\ ~users[i].isActive
                      /\ users[i].refreshToken # NoHash

\* ---------------------------------------------------------------------------
\* C23  Token renewal across access expiry.  Once the access token of a
\* session has expired and while its refresh token has not, a request with
\* the expired access token is refused, a refresh with the session's live
\* refresh token succeeds, and a request with the access token that refresh
\* returned is let in.
Profiles == {c \in Calls : calls[c].op = "profile"}

ExpiredAccessRefused ==
  \A c \in Profiles :
    Ended(c) /\ calls[c].tok.secret = "JWT_SECRET" /\ calls[c].obs.expired =>
      calls[c].res = "Unauthenticated"

LiveRefreshSucceeds ==
  \A c \in Refreshes :
    Ended(c) /\ calls[c].obs.tokLive =>
      /\ ~calls[c].obs.sessionless /\ users[calls[c].tok.sub].isActive =>
           calls[c].res # "Unauthenticated"
      /\ calls[c].obs.wasLatest =>
           /\ calls[c].res = "ok"
           /\ calls[c].accessToken \in issued
           /\ calls[c].accessToken.exp = calls[c].accessToken.iat + AccessTTL
           /\ calls[c].accessToken.iat >= calls[c].tok.iat

LiveAccessAdmitted ==
  \A c \in Profiles : Ended(c) /\ Authenticated(c) => calls[c].res = "ok"

C23_RenewalAcrossExpiry == ExpiredAccessRefused /\ LiveRefreshSucceeds /\ LiveAccessAdmitted

\* a request let in with an access token signed after the access token of a
\* rotated refresh token had expired and before that refresh token did
C23_Witness ==
  \E c \in Profiles :
    /\ Ended(c) /\ calls[c].res = "ok"
    /\ \E t \in rotated :
         /\ t.sub = calls[c].tok.sub
         /\ calls[c].tok.iat >= t.iat + AccessTTL
         /\ calls[c].tok.iat < t.exp
         /\ latest[t.sub] # NoToken /\ latest[t.sub].iat = calls[c].tok.iat

\* ---------------------------------------------------------------------------
\* C24  Logout versus a refresh in flight.  Once a logout of a principal has
\* completed, the stored refresh hash of that principal stays null until a
\* login of that principal succeeds: no refresh call that read the hash before
\* the logout writes a new hash after it.  As a step property: a null hash
\* becomes a hash only by the update of a login.
LoginWrites(i) ==
  \E c \in Logins : calls[c].pc = "update" /\ calls'[c].pc = "done" /\ calls[c].user.id = i

HashSetOnlyByLogin ==
  \A i \in Ids :
    users[i] # NoUser /\ users[i].refreshToken = NoHash /\ users'[i].refreshToken # NoHash =>
      LoginWrites(i)

C24_LogoutVersusRefresh == [][HashSetOnlyByLogin]_vars

\* ---------------------------------------------------------------------------
\* C25  Failed operations change nothing.  A login or a refresh that fails
\* writes nothing to the store and issues no token: every step of such a call
\* other than its successful completion leaves every row and the set of issued
\* tokens as they were, and a failed call holds no token.  In particular a
\* refused stale refresh token leaves the principal's current session in place.
Sessioning == {c \in Calls : calls[c].op \in {"login", "refresh"}}

Succeeds(c) == calls'[c].pc = "done" /\ calls'[c].res = "ok"

FailureWritesNothing ==
  \A c \in Calls :
    calls'[c] # calls[c] /\ calls'[c].op \in {"login", "refresh"} /\ ~Succeeds(c) =>
      users' = users /\ issued' = issued /\ latest' = latest

FailureIssuesNothing ==
  \A c \in Sessioning :
    Ended(c) /\ calls[c].res # "ok" =>
      /\ calls[c].accessToken = NoToken /\ calls[c].refreshToken = NoToken
      /\ calls[c].body = NoBody

C25_FailureChangesNothing == []FailureIssuesNothing /\ [][FailureWritesNothing]_vars

\* a rotated refresh token refused while the session that replaced it stands
C25_Witness ==
  \E c \in Refreshes :
    /\ Ended(c) /\ Failed(c) /\ calls[c].obs.stale
    /\ users[calls[c].tok.sub].refreshToken # NoHash
    /\ latest[calls[c].tok.sub] \notin {NoToken, calls[c].tok}
    /\ calls[c].accessToken = NoToken

\* ---------------------------------------------------------------------------
\* C26  Frame of the session operations.  Every step of a login, a refresh or
\* a logout of a principal changes at most the refresh hash of that principal:
\* the id, email, password hash, role and active flag of every principal and
\* the refresh hash of every other principal stay as they were, and no
\* principal is added or removed.
SessionStep(c) ==
  /\ calls'[c] # calls[c]
  /\ calls'[c].op \in {"login", "refresh", "logout"}
  /\ \/ calls[c].op = calls'[c].op /\ calls[c].pc # "done"
     \/ Idle(c)

SameButHash(old, new) ==
  IF old = NoUser THEN new = NoUser
  ELSE new # NoUser /\ [new EXCEPT !.refreshToken = old.refreshToken] = old

SessionFrame ==
  \A c \in Calls :
    SessionStep(c) =>
      \A i \in Ids :
        /\ SameButHash(users[i], users'[i])
        /\ users'[i] # users[i] => i = calls[c].user.id

C26_SessionFrame == [][SessionFrame]_vars

\* a login completed for one principal while another one holds a session
C26_Witness ==
  \E c \in Logins :
    /\ Ended(c) /\ calls[c].res = "ok"
    /\ users[calls[c].user.id].refreshToken # NoHash
    /\ \E i \in Ids : i # calls[c].user.id /\ users[i] # NoUser /\ users[i].refreshToken # NoHash

\* ---------------------------------------------------------------------------
\* C27  Login checks the active flag before the password.  A login for an
\* inactive principal fails with InactiveAccount whatever the password is,
\* matching or not, and returns no token.
InactiveLogin(c) == c \in Logins /\ Ended(c) /\ calls[c].obs.found /\ ~calls[c].obs.active

C27_InactiveBeforePassword ==
  \A c \in Calls :
    InactiveLogin(c) =>
      /\ calls[c].res = "InactiveAccount"
      /\ calls[c].accessToken = NoToken /\ calls[c].refreshToken = NoToken

\* both cases side by side: an inactive principal refused with the matching
\* password and with another one
C27_Witness ==
  \E c, d \in Calls :
    /\ InactiveLogin(c) /\ calls[c].obs.pwOk
    /\ InactiveLogin(d) /\ ~calls[d].obs.pwOk
    /\ calls[c].res = calls[d].res

\* ---------------------------------------------------------------------------
\* C28  Guard without a usable principal.  When the route requires a non-empty
\* set of roles and the request carries no principal, or a principal with no
\* role, the guard denies.
NoUsablePrincipal(c) == calls[c].user = NoUser \/ calls[c].user.role = ""

C28_NoPrincipalDenied ==
  \A c \in Guarded :
    Ended(c) /\ Required(calls[c].required) # {} /\ NoUsablePrincipal(c) =>
      calls[c].res = "Forbidden"

\* the guard denied a request without a principal where admin is required
C28_Witness ==
  \E c \in Guarded :
    /\ Ended(c) /\ calls[c].res = "Forbidden"
    /\ calls[c].user = NoUser
    /\ Required(calls[c].required) = {"admin"}

\* the guard denied a principal that has no role property
C28_WitnessNoRole ==
  \E c \in Guarded :
    /\ Ended(c) /\ calls[c].res = "Forbidden"
    /\ calls[c].user # NoUser /\ calls[c].user.role = ""
    /\ Required(calls[c].required) = {"admin"}

\* ---------------------------------------------------------------------------
\* C29  The role decision uses the principal as stored, not the token's role
\* claim.  The gate attaches the principal reloaded from the store by the
\* token's subject: the request of an unexpired access token that carries
\* another role than the stored one is decided on the stored role, and the
\* principal the handler sees and returns has the stored role.
StoredRole(c) == users[calls[c].tok.sub].role

PastGate(c) == calls[c].pc = "handler" \/ (Ended(c) /\ calls[c].res = "ok")

C29_StoredRoleDecides ==
  \A c \in Routed :
    Authenticated(c) /\ calls[c].tok.role # StoredRole(c) =>
      /\ PastGate(c) <=> Admits(calls[c].op, StoredRole(c))
      /\ ~PastGate(c) => Ended(c) /\ calls[c].res = "Forbidden"
      /\ PastGate(c) =>
           /\ calls[c].user.role = StoredRole(c)
           /\ \A u \in calls[c].body.user : u.role = StoredRole(c)

\* a token that says admin, of a principal stored as user, was refused the
\* list of all users
C29_Witness ==
  \E c \in Routed :
    /\ Authenticated(c)
    /\ calls[c].tok.role = "admin" /\ StoredRole(c) = "user"
    /\ calls[c].op = "all" /\ calls[c].res = "Forbidden"

\* a token that says user, of a principal stored as admin, got the list
C29_WitnessPromoted ==
  \E c \in Routed :
    /\ Authenticated(c)
    /\ calls[c].tok.role = "user" /\ StoredRole(c) = "admin"
    /\ calls[c].op = "all" /\ calls[c].res = "ok"

\* ---------------------------------------------------------------------------
\* C30  Access tokens are stateless.  A request passes the bearer gate exactly
\* when its token is an access token of this service, unexpired, whose
\* principal exists and is active; the stored refresh hash plays no part, so
\* an access token issued before a logout or a rotation passes the gate after
\* it until it expires.
GateOpened(c) ==
  IF Ended(c) THEN calls[c].res = "ok"
  ELSE calls[c].op = "logout" /\ calls[c].pc = "update"

C30_StatelessAccess == \A c \in Bearing : Authenticated(c) <=> GateOpened(c)

\* a profile request let in with the access token of a session that a logout
\* had ended before the request came
C30_Witness ==
  \E c \in Profiles :
    /\ Ended(c) /\ calls[c].res = "ok"
    /\ calls[c].obs.sessionless
    /\ calls[c].tok \in issued
    /\ \E t \in revoked : t.sub = calls[c].tok.sub /\ t.iat = calls[c].tok.iat

\* ---------------------------------------------------------------------------
\* C31  Issued claims.  Both tokens of every pair a login or a refresh issues
\* carry the id, the email and the role of the principal as the operation read
\* it from the store; a refresh does not copy the claims of the token that was
\* presented to it.
Signed(c) == c \in Sessioning /\ calls[c].accessToken # NoToken

ClaimsOf(t) == [sub |-> t.sub, email |-> t.email, role |-> t.role]

RowClaims(row) == [sub |-> row.id, email |-> row.email, role |-> row.role]

C31_IssuedClaims ==
  \A c \in Calls :
    Signed(c) =>
      /\ ClaimsOf(calls[c].accessToken) = RowClaims(calls[c].user)
      /\ ClaimsOf(calls[c].refreshToken) = RowClaims(calls[c].user)
      /\ RowClaims(calls[c].user) = RowClaims(users[calls[c].user.id])
      /\ calls[c].accessToken.secret = "JWT_SECRET"
      /\ calls[c].refreshToken.secret = "JWT_REFRESH_SECRET"

\* a refresh returned a pair with the stored role, admin, on a token that
\* carries the role user
C31_Witness ==
  \E c \in Refreshes :
    /\ Ended(c) /\ calls[c].res = "ok"
    /\ calls[c].tok.role = "user"
    /\ calls[c].accessToken.role = "admin" /\ calls[c].refreshToken.role = "admin"
    /\ users[calls[c].user.id].role = "admin"

\* ---------------------------------------------------------------------------
\* C32  Persist before return.  A login or a refresh returns a token pair only
\* in the step that has written the hash of the new refresh token to the
\* store; when that write fails no pair is returned and nothing is written;
\* and when the save of a registration fails the caller gets an internal
\* failure that is none of the failures of the taxonomy, and no principal view.
Taxonomy ==
  {"DuplicateIdentity", "InvalidCredentials", "InactiveAccount", "TokenMalformed",
   "TokenExpired", "InvalidRefreshToken", "Forbidden", "Unauthenticated"}

Returns(c) ==
  /\ calls[c].op \in {"login", "refresh"} /\ calls[c].pc = "update"
  /\ calls'[c].pc = "done"

PersistBeforeReturn ==
  \A c \in Calls :
    Returns(c) =>
      IF calls'[c].res = "ok"
      THEN /\ calls'[c].refreshToken = calls[c].refreshToken
           /\ users'[calls[c].user.id].refreshToken = BcryptHash(JwtString(calls[c].refreshToken))
      ELSE /\ calls'[c].res = "InternalFailure"
           /\ calls'[c].accessToken = NoToken /\ calls'[c].refreshToken = NoToken
           /\ calls'[c].body = NoBody
           /\ users' = users /\ issued' = issued /\ latest' = latest

ReturnedOnly == issued' # issued => \E c \in Calls : Returns(c) /\ calls'[c].res = "ok"

SaveFailed(c) == c \in Registers /\ Ended(c) /\ calls[c].obs.found = FALSE /\ calls[c].res # "ok"

OpaqueFailure ==
  \A c \in Calls :
    SaveFailed(c) =>
      /\ calls[c].res = "InternalFailure" /\ calls[c].res \notin Taxonomy
      /\ calls[c].body = NoBody

C32_PersistBeforeReturn == []OpaqueFailure /\ [][PersistBeforeReturn /\ ReturnedOnly]_vars

\* a registration whose save failed next to a login whose update failed and
\* left the principal without a stored hash
C32_Witness ==
  \E c, d \in Calls :
    /\ SaveFailed(c)
    /\ d \in Logins /\ Ended(d) /\ calls[d].res = "InternalFailure"
    /\ calls[d].accessToken = NoToken
    /\ users[calls[d].user.id].refreshToken = NoHash

\* ---------------------------------------------------------------------------
\* C33  Refresh chain.  The refresh token a successful refresh returns is the
\* one the next refresh accepts, and each link invalidates the token that was
\* presented to it: in the state a successful refresh leaves, the comparison
\* of refreshTokens accepts the returned token and refuses the presented one.
Links(c) ==
  /\ calls[c].op = "refresh" /\ calls[c].pc = "update"
  /\ calls'[c].pc = "done" /\ calls'[c].res = "ok"

\* the first half: the returned token passes against the row as written
ChainAccepts ==
  \A c \in Calls :
    Links(c) => RefreshCheck(users'[calls[c].user.id], calls'[c].refreshToken) = "ok"

\* the second half: the presented token no longer passes
ChainInvalidates ==
  \A c \in Calls :
    Links(c) => RefreshCheck(users'[calls[c].user.id], calls[c].tok) = "InvalidRefreshToken"

C33_ChainAcceptsNext == [][ChainAccepts]_vars

C33_RefreshChain == [][ChainAccepts /\ ChainInvalidates]_vars

\* ---------------------------------------------------------------------------
\* C34  No lockout.  In every reachable state, whatever the stored refresh
\* hash of an active principal is, the checks of login pass for that
\* principal's email and password; a login that has passed them ends in
\* success; and the step that completes it leaves the returned refresh token
\* as the one the comparison of refreshTokens accepts.
RightCredentials(dto, row) ==
  row # NoUser /\ row.isActive /\ dto.email = row.email /\ BcryptCompare(dto.password, row.password)

LoginOpen ==
  \A i \in Ids : \A dto \in LoginDtos :
    RightCredentials(dto, users[i]) => LoginCheck(FindByEmail(dto.email), dto.password) = "ok"

LoginGoesThrough ==
  \A c \in Logins :
    calls[c].obs.found /\ calls[c].obs.active /\ calls[c].obs.pwOk =>
      IF Ended(c) THEN calls[c].res = "ok" ELSE calls[c].pc \in {"sign", "update"}

LoginCompletes(c) == calls[c].op = "login" /\ calls[c].pc = "update" /\ calls'[c].pc = "done"

LoginTakesOver ==
  \A c \in Calls :
    LoginCompletes(c) =>
      /\ calls'[c].res = "ok"
      /\ calls'[c].refreshToken = calls[c].refreshToken /\ calls[c].refreshToken # NoToken
      /\ users'[calls[c].user.id].refreshToken = BcryptHash(JwtString(calls[c].refreshToken))
      /\ RefreshCheck(users'[calls[c].user.id], calls[c].refreshToken) = "ok"

C34_NoLockout == [](LoginOpen /\ LoginGoesThrough) /\ [][LoginTakesOver]_vars

\* a login went through for a principal whose session a logout had ended, and
\* the stored hash is the one of the token it returned
C34_Witness ==
  \E c \in Logins :
    /\ Ended(c) /\ calls[c].res = "ok"
    /\ \E t \in revoked : t.sub = calls[c].user.id
    /\ users[calls[c].user.id].isActive
    /\ users[calls[c].user.id].refreshToken = BcryptHash(JwtString(calls[c].refreshToken))
    /\ latest[calls[c].user.id] = calls[c].refreshToken

\* ---------------------------------------------------------------------------
\* C35  Every operation terminates without internal retry.  A call of
\* register, login, refresh or logout goes through its steps once and in
\* order, so it reads the store at most once and writes it at most once, the
\* write being its last step; it ends in success or in one terminal failure,
\* which then stands; and under fair scheduling of its steps every started
\* call completes, whatever other calls run beside it.
Rank(pc) ==
  IF pc = "idle" THEN 0
  ELSE IF pc = "find" THEN 1
  ELSE IF pc \in {"save", "sign"} THEN 2
  ELSE IF pc = "update" THEN 3
  ELSE 4

Started(c) == ~Free(c)

OnePass ==
  \A c \in Calls :
    /\ Started(c) /\ calls'[c].pc # calls[c].pc =>
         /\ calls'[c].op = calls[c].op
         /\ Rank(calls'[c].pc) > Rank(calls[c].pc)
    /\ Ended(c) /\ calls'[c] # calls[c] => nops' = nops + 1

OneWrite ==
  users' # users =>
    \E c \in Calls : calls[c].pc \in {"save", "update"} /\ calls'[c].pc = "done"

Terminal ==
  \A c \in Calls : Ended(c) => calls[c].res \in {"ok", "InternalFailure"} \cup Taxonomy

C35_Terminates ==
  /\ []Terminal
  /\ [][OnePass /\ OneWrite]_vars
  /\ \A c \in Calls : Started(c) ~> Ended(c)

\* a refresh and a logout that ran side by side and both ended
C35_Witness ==
  \E c, d \in Calls :
    /\ c # d /\ Ended(c) /\ Ended(d)
    /\ calls[c].op = "refresh" /\ calls[c].res = "ok"
    /\ calls[d].op = "logout" /\ calls[d].res = "ok"
    /\ nops = MaxOps

====
